---- MODULE Spec2Model ----
(***************************************************************************)
(* Real-time interview session engine of interview-saas-backend.           *)
(*                                                                         *)
(* The repository holds two gateways over the same interviews table:       *)
(*   - the HR-supervised WebSocketService (src/unnamed/part_012), whose    *)
(*     registry `sessions` is keyed by interviewId; Spec is its candidate  *)
(*     side with termination, ObsSpec its observer protocol;               *)
(*   - the candidate-only WebSocketService (src/unnamed/part_006) driving  *)
(*     InterviewOrchestrator.js; it is the system of OrchSpec, and of      *)
(*     TurnSpec, which runs each of its handlers to its return.            *)
(* SweepSpec is the life of a part_012 session in the registry, with the   *)
(* wall clock and the cleanup sweep.                                       *)
(* One interviewId is modelled: sessions of different interviews share     *)
(* nothing but the registry map.                                           *)
(*                                                                         *)
(* JavaScript runs one handler segment at a time: the code between two     *)
(* awaits is one atomic action.  A handler in flight is a task whose pc    *)
(* names the await it is suspended at.                                     *)
(***************************************************************************)
EXTENDS Integers, Sequences, FiniteSets, TLC

\* ---------------------------------------------------------------- bounds
MaxTasks == 2
MaxObj == 2
MaxEvents == 3
MaxObsEvents == 5
MaxOrch == 2        \* InterviewOrchestrator objects constructed
MaxOrchEvents == 5  \* socket events taken by the voice gateway
MaxOverlaps == 1    \* handlers started while another one is in flight
MaxChunks == 1      \* audio chunks buffered between two audio-complete events
MaxTurnEvents == 23 \* socket events taken by the voice gateway, one handler at a time
MaxClock == 3     \* ticks of the wall clock
MaxTurnOrch == 1    \* InterviewOrchestrator objects constructed, one handler at a time

\* ------------------------------------------------------------- universe
NULL == "null"
CandSockets == {"c1", "c2"}
HrSockets == {"h1", "h2"}
HrUsers == {"u1", "u2"}
Sockets == CandSockets \cup HrSockets
ObjIds == 1 .. MaxObj
OrchIds == 1 .. MaxOrch

VARIABLES
    sessions,       \* this.sessions.get(interviewId): a session object id, 0 if absent
    heap,           \* the session objects ever created
    nAlloc,         \* how many session objects were created
    tasks,          \* handler invocations in flight
    connected,      \* sockets whose connection is open
    dbStatus,       \* interviews.status
    dbTranscript,   \* interviews.transcript
    reportCount,    \* orchestrator.generateReport calls that returned
    finalizeCount,  \* UPDATE interviews SET status = 'completed' executed
    startCount,     \* startInterview calls begun
    nEvents,        \* socket events received (the text of a turn is its event's number)
    revealed,       \* history: the hrUserIds whose visible flag was ever set
    out,            \* the events emitted by the last step
    activeSessions, \* part_006 this.activeSessions, by socket id
    orchs,          \* the InterviewOrchestrator objects ever constructed
    nOrch,          \* how many were constructed
    dbLive,         \* interviews.live_state
    nOverlap,       \* history: handlers started while another was in flight
    failed,         \* history: a collaborator call has thrown
    clock           \* Date.now(), in ticks of half a retention window

gwVars == <<sessions, heap, nAlloc, tasks, connected, dbStatus, dbTranscript,
            reportCount, finalizeCount, startCount, nEvents, revealed, out>>

orchVars == <<activeSessions, orchs, nOrch, dbLive, nOverlap, failed>>

vars == <<gwVars, orchVars, clock>>

\* --------------------------------------------------------------- helpers
Ev(to, ev) == [to |-> to, ev |-> ev]

\* a variant of hrPresent that counts every observer, hidden ones too
hrPresentAny(ses) == ses.hrObservers # <<>>

\* the hrPresent of interview-joined (part_012:187):
\* session.hrObservers.some(obs => obs.visible)
hrPresent(ses) == \E i \in DOMAIN ses.hrObservers : ses.hrObservers[i].visible

\* interview-joined with its hrPresent (part_012:182-188)
InterviewJoined(sock, ses) ==
    [to |-> sock, ev |-> "interview-joined", hrPresent |-> hrPresent(ses)]

FreeSession ==
    [candidateSocketId |-> NULL, status |-> "free", orchestrator |-> 0, transcript |-> <<>>,
     hrObservers |-> <<>>, hrPresent |-> FALSE, isPaused |-> FALSE,
     startedAt |-> 0, completedAt |-> 0]

\* the session object of part_012:151-164; orchestrator is the identity of
\* its new InterviewOrchestrator, which holds the phase index.  completedAt
\* is history: the time status became completed.
NewSession(sock, id) ==
    [candidateSocketId |-> sock, status |-> "active", orchestrator |-> id, transcript |-> <<>>,
     hrObservers |-> <<>>, hrPresent |-> FALSE, isPaused |-> FALSE,
     startedAt |-> clock, completedAt |-> 0]

IdleTask ==
    [pc |-> "idle", kind |-> NULL, sock |-> NULL, sess |-> 0, id |-> 0,
     obs |-> NULL, det |-> <<>>, arg |-> <<>>]

Task(kind, pc, sock, sess) ==
    [IdleTask EXCEPT !.kind = kind, !.pc = pc, !.sock = sock, !.sess = sess]

\* a socket event is taken: a handler invocation starts
CanStart == Len(tasks) < MaxTasks /\ nEvents < MaxEvents

\* socket ids are arbitrary: the first socket to send an event is called c1
\* (h1 among the observers' sockets)
InOrder(sock) == sock \in {"c2", "h2"} => nEvents > 0

\* the handler invocation t returned
Finished(t) == [i \in 1 .. Len(tasks) - 1 |-> IF i < t THEN tasks[i] ELSE tasks[i + 1]]

Turn(speaker, id) == [speaker |-> speaker, id |-> id]

\* an entry that is visible from the start; Observer without "Hidden by
\* default"
ObserverShown(sock, user) ==
    [socketId |-> sock, userId |-> user, visible |-> TRUE, audio |-> FALSE, video |-> FALSE,
     pj |-> 0]

\* an entry of session.hrObservers (part_012:491-500); pj is history: the
\* participant-joined events sent to the candidate for this entry
Observer(sock, user) ==
    [socketId |-> sock, userId |-> user, visible |-> FALSE, audio |-> FALSE, video |-> FALSE,
     pj |-> 0]

\* Array.prototype.findIndex on obs.socketId === socket.id (0 for -1)
FindBySocket(list, sock) ==
    IF \E i \in DOMAIN list : list[i].socketId = sock
    THEN CHOOSE i \in DOMAIN list :
            /\ list[i].socketId = sock
            /\ \A j \in DOMAIN list : j < i => list[j].socketId # sock
    ELSE 0

\* a lookup that finds nobody: FindByUser without its check
FindByUserNever(list, user) == 0

\* Array.prototype.findIndex on obs.userId === hrUserId (0 for -1)
FindByUser(list, user) ==
    IF \E i \in DOMAIN list : list[i].userId = user
    THEN CHOOSE i \in DOMAIN list :
            /\ list[i].userId = user
            /\ \A j \in DOMAIN list : j < i => list[j].userId # user
    ELSE 0

\* a splice with no delete count: the entry and everything after it
SpliceFrom(list, i) == SubSeq(list, 1, i - 1)

\* Array.prototype.splice(i, 1)
Splice(list, i) == [k \in 1 .. Len(list) - 1 |-> IF k < i THEN list[k] ELSE list[k + 1]]

\* the observer object a suspended handler holds: the entry of the list, or
\* the object as it was when handleDisconnect spliced it out
ObsOf(task) ==
    IF task.det # <<>> THEN task.det[1]
    ELSE heap[task.sess].hrObservers[FindByUser(heap[task.sess].hrObservers, task.obs)]

\* notifyHRObservers: one event to the socket of every observer of the
\* session the registry holds now
notifyHRObservers(reg, hp, ev) ==
    IF reg = 0 THEN {}
    ELSE {Ev(hp[reg].hrObservers[i].socketId, ev) : i \in DOMAIN hp[reg].hrObservers}

\* interviews.live_state DEFAULT (schema.sql:102-107); last_signal_check is
\* the key processResponse adds (InterviewOrchestrator.js:123-126), absent
\* until the first turn
DefaultLiveState ==
    [phase_index |-> 0, stress_level |-> "low", last_signal_check |-> NULL]

\* StressMonitorAgent.quickStressCheck (StressMonitorAgent.js:95-132): the
\* heuristics answer low or medium; the catch block's "unknown" needs a
\* response that is not a string, which no caller passes
StressLevels == {"low", "medium"}

\* AuthenticitySignalAgent.quickSignalCheck (AuthenticitySignalAgent.js:
\* 103-133): the quality the model call returned, or "unknown" from the catch
\* block when the call failed
SignalQualities == {"good", "unknown"}

\* new InterviewOrchestrator(interviewId) (InterviewOrchestrator.js:14-25);
\* transcript and live_state are this.context, filled by loadContext
NewOrchestrator ==
    [currentPhaseIndex |-> 0, transcript |-> <<>>, live_state |-> DefaultLiveState]

\* a socket without an entry in this.activeSessions, and the entry that
\* handleJoinInterview stores (part_006:597-602)
NoSession == [joined |-> FALSE, orchestrator |-> 0, audioChunks |-> 0]
JoinedSession == [joined |-> TRUE, orchestrator |-> 0, audioChunks |-> 0]

Init ==
    /\ sessions = 0
    /\ heap = [o \in ObjIds |-> FreeSession]
    /\ nAlloc = 0
    /\ tasks = <<>>
    /\ connected = Sockets
    /\ dbStatus = "scheduled"
    /\ dbTranscript = <<>>
    /\ reportCount = 0
    /\ finalizeCount = 0
    /\ startCount = 0
    /\ nEvents = 0
    /\ revealed = {}
    /\ out = {}
    /\ activeSessions = [s \in CandSockets |-> NoSession]
    /\ orchs = [k \in OrchIds |-> NewOrchestrator]
    /\ nOrch = 0
    /\ dbLive = DefaultLiveState
    /\ nOverlap = 0
    /\ failed = FALSE
    /\ clock = 0

\* ------------------------------------------------- candidate: join-interview
\* join-interview arrives: the handler awaits the SELECT of the interview row
HandleCandidateJoin(sock) ==
    /\ sock \in CandSockets \cap connected
    /\ InOrder(sock)
    /\ CanStart
    /\ nEvents' = nEvents + 1
    /\ tasks' = Append(tasks, Task("join", "join_select", sock, 0))
    /\ out' = {}
    /\ UNCHANGED <<sessions, heap, nAlloc, connected, dbStatus, dbTranscript, reportCount,
                   finalizeCount, startCount>>
    /\ UNCHANGED revealed
    /\ UNCHANGED <<orchVars, clock>>

\* the SELECT failed: catch, error event
CandidateJoinSelectFails(t) ==
    /\ tasks[t].pc = "join_select"
    /\ tasks' = Finished(t)
    /\ out' = {Ev(tasks[t].sock, "error")}
    /\ UNCHANGED <<sessions, heap, nAlloc, connected, dbStatus, dbTranscript, reportCount,
                   finalizeCount, startCount, nEvents>>
    /\ UNCHANGED revealed
    /\ UNCHANGED <<orchVars, clock>>

\* the row says completed: rejected
CandidateJoinRejected(t) ==
    /\ tasks[t].pc = "join_select"
    /\ dbStatus = "completed"
    /\ tasks' = Finished(t)
    /\ out' = {Ev(tasks[t].sock, "error")}
    /\ UNCHANGED <<sessions, heap, nAlloc, connected, dbStatus, dbTranscript, reportCount,
                   finalizeCount, startCount, nEvents>>
    /\ UNCHANGED revealed
    /\ UNCHANGED <<orchVars, clock>>

\* no session in the registry: a new session object is built and the handler
\* awaits the UPDATE to in_progress; the object is not in the registry yet
CandidateJoinCreate(t) ==
    /\ tasks[t].pc = "join_select"
    /\ dbStatus # "completed"
    /\ sessions = 0
    /\ nAlloc < MaxObj
    /\ nAlloc' = nAlloc + 1
    /\ heap' = [heap EXCEPT ![nAlloc + 1] = NewSession(tasks[t].sock, nAlloc + 1)]
    /\ tasks' = [tasks EXCEPT ![t].pc = "join_update", ![t].sess = nAlloc + 1]
    /\ out' = {}
    /\ UNCHANGED <<sessions, connected, dbStatus, dbTranscript, reportCount,
                   finalizeCount, startCount, nEvents>>
    /\ UNCHANGED revealed
    /\ UNCHANGED <<orchVars, clock>>

\* a session is in the registry: the candidate is re-bound to it
CandidateRejoin(t) ==
    /\ tasks[t].pc = "join_select"
    /\ dbStatus # "completed"
    /\ sessions # 0
    /\ heap' = [heap EXCEPT ![sessions].candidateSocketId = tasks[t].sock]
    /\ tasks' = Finished(t)
    /\ out' = {InterviewJoined(tasks[t].sock, heap[sessions])}
                \cup notifyHRObservers(sessions, heap, "candidate-joined")
    /\ UNCHANGED <<sessions, nAlloc, connected, dbStatus, dbTranscript, reportCount,
                   finalizeCount, startCount, nEvents>>
    /\ UNCHANGED revealed
    /\ UNCHANGED <<orchVars, clock>>

\* the UPDATE to in_progress returned: startInterview begins (its SELECT,
\* orchestrator.initialize, getNextQuestion and textToSpeech are awaited in a
\* row and touch nothing but the unregistered object: one suspension)
CandidateJoinUpdated(t) ==
    /\ tasks[t].pc = "join_update"
    /\ dbStatus' = "in_progress"
    /\ startCount' = startCount + 1
    /\ tasks' = [tasks EXCEPT ![t].pc = "join_start"]
    /\ out' = {}
    /\ UNCHANGED <<sessions, heap, nAlloc, connected, dbTranscript, reportCount,
                   finalizeCount, nEvents>>
    /\ UNCHANGED revealed
    /\ UNCHANGED <<orchVars, clock>>

\* the UPDATE, or a call of startInterview, threw: catch, error event; the
\* object never reaches the registry
CandidateJoinStartFails(t) ==
    /\ tasks[t].pc \in {"join_update", "join_start"}
    /\ tasks' = Finished(t)
    /\ out' = {Ev(tasks[t].sock, "error")}
    /\ UNCHANGED <<sessions, heap, nAlloc, connected, dbStatus, dbTranscript, reportCount,
                   finalizeCount, startCount, nEvents>>
    /\ UNCHANGED revealed
    /\ UNCHANGED <<orchVars, clock>>

\* startInterview returned.  With a first question: ai-question to the
\* candidate, the AI turn is pushed, the observers of the registered session
\* get transcript-update.  Then this.sessions.set(interviewId, session).
CandidateJoinStarted(t, firstQuestion) ==
    /\ tasks[t].pc = "join_start"
    /\ LET o == tasks[t].sess
           hp == IF firstQuestion
                 THEN [heap EXCEPT ![o].transcript = Append(@, Turn("AI", 0))]
                 ELSE heap
       IN /\ heap' = hp
          /\ sessions' = o
          /\ out' = (IF firstQuestion
                     THEN {Ev(heap[o].candidateSocketId, "ai-question")}
                           \cup notifyHRObservers(sessions, heap, "transcript-update")
                     ELSE {})
                    \cup {InterviewJoined(tasks[t].sock, hp[o])}
                    \cup notifyHRObservers(o, hp, "candidate-joined")
    /\ tasks' = Finished(t)
    /\ UNCHANGED <<nAlloc, connected, dbStatus, dbTranscript, reportCount,
                   finalizeCount, startCount, nEvents>>
    /\ UNCHANGED revealed
    /\ UNCHANGED <<orchVars, clock>>

\* ------------------------------------------ candidate: text and audio input
\* candidate-text arrives (part_012:363-383): the Candidate turn is pushed at
\* once, then the handler awaits orchestrator.processResponse
HandleCandidateText(sock) ==
    /\ sock \in CandSockets \cap connected
    /\ CanStart
    /\ sessions # 0
    /\ sock = heap[sessions].candidateSocketId
    /\ ~heap[sessions].isPaused
    /\ nEvents' = nEvents + 1
    /\ heap' = [heap EXCEPT ![sessions].transcript = Append(@, Turn("Candidate", nEvents + 1))]
    /\ tasks' = Append(tasks, [Task("text", "think", sock, sessions) EXCEPT !.id = nEvents + 1])
    /\ out' = {}
    /\ UNCHANGED <<sessions, nAlloc, connected, dbStatus, dbTranscript, reportCount,
                   finalizeCount, startCount>>
    /\ UNCHANGED revealed
    /\ UNCHANGED <<orchVars, clock>>

\* candidate-text or candidate-audio with no session, or while paused: return
HandleCandidateInputIgnored(sock) ==
    /\ sock \in CandSockets \cap connected
    /\ InOrder(sock)
    /\ (IF sessions = 0 THEN TRUE ELSE heap[sessions].isPaused)
    /\ out' = {}
    /\ UNCHANGED <<sessions, heap, nAlloc, tasks, connected, dbStatus, dbTranscript,
                   reportCount, finalizeCount, startCount, nEvents>>
    /\ UNCHANGED revealed
    /\ UNCHANGED <<orchVars, clock>>

\* candidate-audio arrives (part_012:262-273): the handler awaits speechToText
HandleCandidateAudio(sock) ==
    /\ sock \in CandSockets \cap connected
    /\ CanStart
    /\ sessions # 0
    /\ sock = heap[sessions].candidateSocketId
    /\ ~heap[sessions].isPaused
    /\ nEvents' = nEvents + 1
    /\ tasks' = Append(tasks, [Task("audio", "stt", sock, sessions) EXCEPT !.id = nEvents + 1])
    /\ out' = {}
    /\ UNCHANGED <<sessions, heap, nAlloc, connected, dbStatus, dbTranscript, reportCount,
                   finalizeCount, startCount>>
    /\ UNCHANGED revealed
    /\ UNCHANGED <<orchVars, clock>>

\* speechToText returned text (part_012:279-296): Candidate turn, transcription
\* event, then the handler awaits processResponse
AudioTranscribed(t) ==
    /\ tasks[t].pc = "stt"
    /\ LET s == tasks[t].sess
       IN /\ heap' = [heap EXCEPT ![s].transcript = Append(@, Turn("Candidate", tasks[t].id))]
          /\ out' = {Ev(heap[s].candidateSocketId, "transcription")}
    /\ tasks' = [tasks EXCEPT ![t].pc = "think"]
    /\ UNCHANGED <<sessions, nAlloc, connected, dbStatus, dbTranscript, reportCount,
                   finalizeCount, startCount, nEvents>>
    /\ UNCHANGED revealed
    /\ UNCHANGED <<orchVars, clock>>

\* speechToText returned nothing (part_012:275-277): return, no event
AudioEmpty(t) ==
    /\ tasks[t].pc = "stt"
    /\ tasks' = Finished(t)
    /\ out' = {}
    /\ UNCHANGED <<sessions, heap, nAlloc, connected, dbStatus, dbTranscript, reportCount,
                   finalizeCount, startCount, nEvents>>
    /\ UNCHANGED revealed
    /\ UNCHANGED <<orchVars, clock>>

\* a variant of HandlerFails that also drops the session from the registry
HandlerFailsTearingDown(t) ==
    /\ tasks[t].pc \in {"stt", "think", "tts", "end_report", "end_update", "end_save"}
    /\ tasks' = Finished(t)
    /\ out' = {Ev(tasks[t].sock, "error")}
    /\ sessions' = 0
    /\ UNCHANGED <<heap, nAlloc, connected, dbStatus, dbTranscript, reportCount,
                   finalizeCount, startCount, nEvents>>
    /\ UNCHANGED revealed
    /\ UNCHANGED <<orchVars, clock>>

\* an awaited collaborator of a candidate input or of hr-end-interview threw
\* (speechToText, processResponse, getNextQuestion, textToSpeech,
\* generateReport, a query): the handler's catch sends the error event
HandlerFails(t) ==
    /\ tasks[t].pc \in {"stt", "think", "tts", "end_report", "end_update", "end_save"}
    /\ tasks' = Finished(t)
    /\ out' = {Ev(tasks[t].sock, "error")}
    /\ UNCHANGED <<sessions, heap, nAlloc, connected, dbStatus, dbTranscript, reportCount,
                   finalizeCount, startCount, nEvents>>
    /\ UNCHANGED revealed
    /\ UNCHANGED <<orchVars, clock>>

\* the tail of a candidate input with a next question (part_012:308-332,
\* 392-415): ai-question, the AI turn, transcript-update, sessions.set
QuestionTail(t) ==
    LET s == tasks[t].sess
        hp == [heap EXCEPT ![s].transcript = Append(@, Turn("AI", tasks[t].id))]
    IN /\ heap' = hp
       /\ sessions' = s
       /\ out' = {Ev(heap[s].candidateSocketId, "ai-question")}
                   \cup notifyHRObservers(sessions, hp, "transcript-update")
       /\ tasks' = Finished(t)
    /\ UNCHANGED revealed
    /\ UNCHANGED <<orchVars, clock>>

\* processResponse and getNextQuestion returned a question.  Text mode sends
\* it at once; audio mode awaits textToSpeech first.
NextQuestion(t) ==
    /\ tasks[t].pc = "think"
    /\ IF tasks[t].kind = "text"
       THEN QuestionTail(t)
       ELSE /\ tasks' = [tasks EXCEPT ![t].pc = "tts"]
            /\ out' = {}
            /\ UNCHANGED <<sessions, heap>>
    /\ UNCHANGED <<nAlloc, connected, dbStatus, dbTranscript, reportCount,
                   finalizeCount, startCount, nEvents>>
    /\ UNCHANGED revealed
    /\ UNCHANGED <<orchVars, clock>>

\* textToSpeech returned (part_012:306-321)
QuestionSpoken(t) ==
    /\ tasks[t].pc = "tts"
    /\ QuestionTail(t)
    /\ UNCHANGED <<nAlloc, connected, dbStatus, dbTranscript, reportCount,
                   finalizeCount, startCount, nEvents>>

\* getNextQuestion returned null (part_012:322-325, 405-408): endInterview
\* is entered and awaits orchestrator.generateReport
NoMoreQuestions(t) ==
    /\ tasks[t].pc = "think"
    /\ tasks' = [tasks EXCEPT ![t].pc = "end_report"]
    /\ out' = {}
    /\ UNCHANGED <<sessions, heap, nAlloc, connected, dbStatus, dbTranscript, reportCount,
                   finalizeCount, startCount, nEvents>>
    /\ UNCHANGED revealed
    /\ UNCHANGED <<orchVars, clock>>

\* ------------------------------------------------------------- endInterview
\* hr-end-interview arrives (part_012:734-742): endInterview is entered
\* whatever the session's status
HandleHREndInterviewWithin(sock, bound) ==
    /\ sock \in HrSockets \cap connected
    /\ InOrder(sock)
    /\ Len(tasks) < MaxTasks
    /\ nEvents < bound
    /\ sessions # 0
    /\ nEvents' = nEvents + 1
    /\ tasks' = Append(tasks, Task("hrend", "end_report", sock, sessions))
    /\ out' = {}
    /\ UNCHANGED <<sessions, heap, nAlloc, connected, dbStatus, dbTranscript, reportCount,
                   finalizeCount, startCount>>
    /\ UNCHANGED revealed
    /\ UNCHANGED <<orchVars, clock>>

\* hr-end-interview among the events of a candidate's session
HandleHREndInterview(sock) == HandleHREndInterviewWithin(sock, MaxEvents)

\* generateReport returned (part_012:425-433): the UPDATE to completed is sent
EndReportDone(t) ==
    /\ tasks[t].pc = "end_report"
    /\ reportCount' = reportCount + 1
    /\ tasks' = [tasks EXCEPT ![t].pc = "end_update"]
    /\ out' = {}
    /\ UNCHANGED <<sessions, heap, nAlloc, connected, dbStatus, dbTranscript,
                   finalizeCount, startCount, nEvents>>
    /\ UNCHANGED revealed
    /\ UNCHANGED <<orchVars, clock>>

\* the UPDATE to completed returned (part_012:428-439): the final record is
\* written, and the transcript as it is now is sent to be saved
EndUpdateDone(t) ==
    /\ tasks[t].pc = "end_update"
    /\ dbStatus' = "completed"
    /\ finalizeCount' = finalizeCount + 1
    /\ dbTranscript' = heap[tasks[t].sess].transcript
    /\ tasks' = [tasks EXCEPT ![t].pc = "end_save"]
    /\ out' = {}
    /\ UNCHANGED <<sessions, heap, nAlloc, connected, reportCount,
                   startCount, nEvents>>
    /\ UNCHANGED revealed
    /\ UNCHANGED <<orchVars, clock>>

\* the transcript is saved (part_012:441-454): completion events, status,
\* sessions.set; then the caller's tail (part_012:327-332, 410-415, 744-749)
EndSaveDone(t) ==
    /\ tasks[t].pc = "end_save"
    /\ LET s == tasks[t].sess
           hp == [heap EXCEPT ![s].status = "completed",
                              ![s].completedAt = IF heap[s].status = "completed"
                                                 THEN @ ELSE clock]
       IN /\ heap' = hp
          /\ sessions' = s
          /\ out' = {Ev(heap[s].candidateSocketId, "interview-completed")}
                    \cup notifyHRObservers(sessions, heap, "interview-completed")
                    \cup (IF tasks[t].kind = "hrend"
                          THEN IF heap[s].candidateSocketId # NULL
                               THEN {Ev(heap[s].candidateSocketId, "interview-ended-by-hr")}
                               ELSE {}
                          ELSE notifyHRObservers(s, hp, "transcript-update"))
    /\ tasks' = Finished(t)
    /\ UNCHANGED <<nAlloc, connected, dbStatus, dbTranscript, reportCount,
                   finalizeCount, startCount, nEvents>>
    /\ UNCHANGED revealed
    /\ UNCHANGED <<orchVars, clock>>


\* a variant of Unbound that clears the candidate whichever socket closed
UnboundAny(ses, sock) == [ses EXCEPT !.candidateSocketId = NULL]

\* a variant of Unbound that also forgets the conversation
UnboundForgetting(ses, sock) ==
    IF ses.candidateSocketId = sock
    THEN [ses EXCEPT !.candidateSocketId = NULL, !.transcript = <<>>]
    ELSE ses

\* handleDisconnect, the candidate's part (part_012:811-814): the session
\* loses its candidate socket and nothing else
Unbound(ses, sock) ==
    IF ses.candidateSocketId = sock
    THEN [ses EXCEPT !.candidateSocketId = NULL]
    ELSE ses

\* -------------------------------------------------------------- disconnect
\* handleDisconnect (part_012:805-848), for the one registered session: the
\* candidate reference is cleared if it is this socket, the first observer
\* entry of this socket is spliced out; a handler suspended on that observer
\* keeps the object
HandleDisconnect(sock) ==
    /\ sock \in connected
    /\ InOrder(sock)
    /\ nEvents < MaxObsEvents
    /\ nEvents' = nEvents + 1
    /\ connected' = connected \ {sock}
    /\ IF sessions = 0
       THEN UNCHANGED <<heap, tasks>>
       ELSE LET ses == heap[sessions]
                i == FindBySocket(ses.hrObservers, sock)
                cleared == Unbound(ses, sock)
            IN IF i = 0
               THEN /\ heap' = [heap EXCEPT ![sessions] = cleared]
                    /\ UNCHANGED tasks
               ELSE /\ heap' = [heap EXCEPT ![sessions] =
                                   [cleared EXCEPT !.hrObservers = Splice(@, i)]]
                    /\ tasks' = [t \in DOMAIN tasks |->
                                   IF /\ tasks[t].sess = sessions
                                      /\ tasks[t].obs = ses.hrObservers[i].userId
                                      /\ tasks[t].det = <<>>
                                   THEN [tasks[t] EXCEPT !.det = <<ses.hrObservers[i]>>]
                                   ELSE tasks[t]]
    /\ out' = {}
    /\ UNCHANGED <<sessions, nAlloc, dbStatus, dbTranscript, reportCount,
                   finalizeCount, startCount>>
    /\ UNCHANGED revealed
    /\ UNCHANGED <<orchVars, clock>>

\* ------------------------------------------------------------------ hr-pause
\* handleHRPause (part_012:702-732): no await
HandleHRPause(sock) ==
    /\ sock \in HrSockets \cap connected
    /\ InOrder(sock)
    /\ nEvents < MaxObsEvents
    /\ sessions # 0
    /\ nEvents' = nEvents + 1
    /\ LET hp == [heap EXCEPT ![sessions].isPaused = ~@]
       IN /\ heap' = hp
          /\ out' = (IF heap[sessions].candidateSocketId # NULL
                     THEN {Ev(heap[sessions].candidateSocketId, "interview-paused")}
                     ELSE {})
                    \cup notifyHRObservers(sessions, hp, "interview-pause-toggle")
    /\ UNCHANGED <<sessions, nAlloc, tasks, connected, dbStatus, dbTranscript, reportCount,
                   finalizeCount, startCount>>
    /\ UNCHANGED revealed
    /\ UNCHANGED <<orchVars, clock>>

\* the registry does not change under the observer handlers that only emit
Frame == UNCHANGED <<sessions, nAlloc, connected, dbStatus, dbTranscript, reportCount,
                     finalizeCount, startCount>>

CanStartObs == Len(tasks) < MaxTasks /\ nEvents < MaxObsEvents

\* -------------------------------------------------------------------- hr-join
\* handleHRJoin with no session (part_012:471-476)
HandleHRJoinNotFound(sock) ==
    /\ sock \in HrSockets \cap connected
    /\ InOrder(sock)
    /\ nEvents < MaxObsEvents
    /\ sessions = 0
    /\ nEvents' = nEvents + 1
    /\ out' = {Ev(sock, "error")}
    /\ UNCHANGED <<heap, tasks>>
    /\ Frame
    /\ UNCHANGED revealed
    /\ UNCHANGED <<orchVars, clock>>

\* handleHRJoin, hrUserId already in the list (part_012:484-488, 518-534):
\* the entry is re-bound to this socket; no await
HandleHRJoinExisting(sock, user) ==
    /\ sock \in HrSockets \cap connected
    /\ InOrder(sock)
    /\ nEvents < MaxObsEvents
    /\ sessions # 0
    /\ FindByUser(heap[sessions].hrObservers, user) # 0
    /\ nEvents' = nEvents + 1
    /\ heap' = [heap EXCEPT ![sessions].hrObservers[FindByUser(heap[sessions].hrObservers, user)]
                                .socketId = sock]
    /\ out' = {Ev(sock, "observer-joined")}
    /\ UNCHANGED <<tasks>>
    /\ Frame
    /\ UNCHANGED revealed
    /\ UNCHANGED <<orchVars, clock>>

\* handleHRJoin, new hrUserId (part_012:489-515): the Hidden entry is pushed,
\* then the INSERT and the UPDATE of the count are awaited
HandleHRJoinNew(sock, user) ==
    /\ sock \in HrSockets \cap connected
    /\ InOrder(sock)
    /\ CanStartObs
    /\ sessions # 0
    /\ FindByUser(heap[sessions].hrObservers, user) = 0
    /\ nEvents' = nEvents + 1
    /\ heap' = [heap EXCEPT ![sessions].hrObservers = Append(@, Observer(sock, user))]
    /\ tasks' = Append(tasks, Task("hrjoin", "hrjoin_db", sock, sessions))
    /\ out' = {}
    /\ UNCHANGED revealed
    /\ Frame
    /\ UNCHANGED <<orchVars, clock>>

\* the queries returned (part_012:518-534): observer-joined, sessions.set
HRJoinSaved(t) ==
    /\ tasks[t].pc = "hrjoin_db"
    /\ sessions' = tasks[t].sess
    /\ tasks' = Finished(t)
    /\ out' = {Ev(tasks[t].sock, "observer-joined")}
    /\ UNCHANGED <<heap, nAlloc, connected, dbStatus, dbTranscript, reportCount,
                   finalizeCount, startCount, nEvents>>
    /\ UNCHANGED revealed
    /\ UNCHANGED <<orchVars, clock>>

\* a query of an observer handler threw: catch, error event (hr-join,
\* hr-reveal, hr-note)
HRHandlerFails(t) ==
    /\ tasks[t].pc \in {"hrjoin_db", "reveal_db", "note_db"}
    /\ tasks' = Finished(t)
    /\ out' = {Ev(tasks[t].sock, "error")}
    /\ UNCHANGED <<heap, nEvents>>
    /\ Frame
    /\ UNCHANGED revealed
    /\ UNCHANGED <<orchVars, clock>>

\* an observer event with no session, or hr-reveal / hr-note from a socket
\* that is no observer of it: error event or plain return, nothing changes
HandleHRNotObserver(sock, withError) ==
    /\ sock \in HrSockets \cap connected
    /\ InOrder(sock)
    /\ nEvents < MaxObsEvents
    /\ (IF sessions = 0 THEN TRUE ELSE FindBySocket(heap[sessions].hrObservers, sock) = 0)
    /\ nEvents' = nEvents + 1
    /\ out' = IF withError THEN {Ev(sock, "error")} ELSE {}
    /\ UNCHANGED <<heap, tasks>>
    /\ Frame
    /\ UNCHANGED revealed
    /\ UNCHANGED <<orchVars, clock>>

\* ------------------------------------------------------------------ hr-reveal
\* handleHRReveal (part_012:551-566): visible is set at once, then the
\* UPDATE of was_visible is awaited
HandleHRReveal(sock) ==
    /\ sock \in HrSockets \cap connected
    /\ CanStartObs
    /\ sessions # 0
    /\ FindBySocket(heap[sessions].hrObservers, sock) # 0
    /\ LET i == FindBySocket(heap[sessions].hrObservers, sock)
       IN /\ heap' = [heap EXCEPT ![sessions].hrObservers[i].visible = TRUE]
          /\ tasks' = Append(tasks, [Task("reveal", "reveal_db", sock, sessions)
                                       EXCEPT !.obs = heap[sessions].hrObservers[i].userId])
    /\ revealed' = revealed \cup
                      {heap[sessions].hrObservers[FindBySocket(heap[sessions].hrObservers, sock)].userId}
    /\ nEvents' = nEvents + 1
    /\ out' = {}
    /\ Frame
    /\ UNCHANGED <<orchVars, clock>>

\* the UPDATE returned (part_012:568-589): participant-joined to the
\* candidate if one is bound, hrPresent, reveal-success, sessions.set
HRRevealed(t) ==
    /\ tasks[t].pc = "reveal_db"
    /\ LET s == tasks[t].sess
           cand == heap[s].candidateSocketId
           i == FindByUser(heap[s].hrObservers, tasks[t].obs)
       IN /\ heap' = [heap EXCEPT ![s] =
                        [@ EXCEPT !.hrPresent = TRUE,
                                  !.hrObservers = IF cand # NULL /\ tasks[t].det = <<>>
                                                  THEN [@ EXCEPT ![i].pj = @ + 1]
                                                  ELSE @]]
          /\ sessions' = s
          /\ out' = (IF cand # NULL THEN {Ev(cand, "participant-joined")} ELSE {})
                    \cup {Ev(tasks[t].sock, "reveal-success")}
    /\ tasks' = Finished(t)
    /\ UNCHANGED <<nAlloc, connected, dbStatus, dbTranscript, reportCount,
                   finalizeCount, startCount, nEvents>>
    /\ UNCHANGED revealed
    /\ UNCHANGED <<orchVars, clock>>

\* ------------------------------------------------- hr-audio-toggle, hr-video-toggle
\* the tail of both toggles (part_012:618-627, 642-651)
ToggleTail(s, o, sock, ev) ==
    (IF o.visible /\ heap[s].candidateSocketId # NULL
     THEN {Ev(heap[s].candidateSocketId, ev)}
     ELSE {})
    \cup {Ev(sock, "toggle-success")}

\* handleHRAudioToggle, enabled = true (part_012:603-616): the flag is set,
\* then the UPDATE of spoke_during_interview is awaited
HandleHRAudioOn(sock) ==
    /\ sock \in HrSockets \cap connected
    /\ CanStartObs
    /\ sessions # 0
    /\ FindBySocket(heap[sessions].hrObservers, sock) # 0
    /\ LET i == FindBySocket(heap[sessions].hrObservers, sock)
       IN /\ heap' = [heap EXCEPT ![sessions].hrObservers[i].audio = TRUE]
          /\ tasks' = Append(tasks, [Task("toggle", "toggle_db", sock, sessions)
                                       EXCEPT !.obs = heap[sessions].hrObservers[i].userId])
    /\ nEvents' = nEvents + 1
    /\ out' = {}
    /\ UNCHANGED revealed
    /\ Frame
    /\ UNCHANGED <<orchVars, clock>>

\* the UPDATE returned (part_012:618-627)
HRAudioToggled(t) ==
    /\ tasks[t].pc = "toggle_db"
    /\ sessions' = tasks[t].sess
    /\ out' = ToggleTail(tasks[t].sess, ObsOf(tasks[t]), tasks[t].sock,
                         "participant-audio-changed")
    /\ tasks' = Finished(t)
    /\ UNCHANGED <<heap, nAlloc, connected, dbStatus, dbTranscript, reportCount,
                   finalizeCount, startCount, nEvents>>
    /\ UNCHANGED revealed
    /\ UNCHANGED <<orchVars, clock>>

\* the UPDATE threw: handleHRAudioToggle has no catch, the handler ends
HRAudioToggleFails(t) ==
    /\ tasks[t].pc = "toggle_db"
    /\ tasks' = Finished(t)
    /\ out' = {}
    /\ UNCHANGED <<heap, nEvents>>
    /\ Frame
    /\ UNCHANGED revealed
    /\ UNCHANGED <<orchVars, clock>>

\* handleHRAudioToggle with enabled = false, and handleHRVideoToggle
\* (part_012:631-653): no await
HandleHRToggleSync(sock, modality, enabled) ==
    /\ sock \in HrSockets \cap connected
    /\ nEvents < MaxObsEvents
    /\ modality = "audio" => ~enabled
    /\ sessions # 0
    /\ FindBySocket(heap[sessions].hrObservers, sock) # 0
    /\ LET i == FindBySocket(heap[sessions].hrObservers, sock)
           hp == IF modality = "audio"
                 THEN [heap EXCEPT ![sessions].hrObservers[i].audio = enabled]
                 ELSE [heap EXCEPT ![sessions].hrObservers[i].video = enabled]
       IN /\ heap' = hp
          /\ out' = ToggleTail(sessions, hp[sessions].hrObservers[i], sock,
                               IF modality = "audio" THEN "participant-audio-changed"
                               ELSE "participant-video-changed")
    /\ nEvents' = nEvents + 1
    /\ UNCHANGED <<tasks>>
    /\ Frame
    /\ UNCHANGED revealed
    /\ UNCHANGED <<orchVars, clock>>

\* a variant of CanRelay that does not look at the visible flag
CanRelayHidden(o, flag, ses) ==
    o[flag] /\ ses.candidateSocketId # NULL

\* the condition under which media of observer o is forwarded
\* (part_012:660-664, 689-693)
CanRelay(o, flag, ses) ==
    o.visible /\ o[flag] /\ ses.candidateSocketId # NULL

\* ------------------------------------------------------------ hr-audio, hr-video
\* handleHRAudio (part_012:655-682): to the candidate and to the other
\* observers' sockets, if the sender is visible with audio on and a
\* candidate is bound.  A media chunk holds no turn and changes no state: it
\* is not numbered among the events.
HandleHRAudio(sock) ==
    /\ sock \in HrSockets \cap connected
    /\ sessions # 0
    /\ FindBySocket(heap[sessions].hrObservers, sock) # 0
    /\ LET ses == heap[sessions]
           o == ses.hrObservers[FindBySocket(ses.hrObservers, sock)]
       IN out' = IF CanRelay(o, "audio", ses)
                 THEN {Ev(ses.candidateSocketId, "hr-audio")}
                      \cup {Ev(ses.hrObservers[k].socketId, "hr-audio") :
                              k \in {j \in DOMAIN ses.hrObservers :
                                       ses.hrObservers[j].socketId # sock}}
                 ELSE {}
    /\ UNCHANGED <<heap, tasks, nEvents>>
    /\ Frame
    /\ UNCHANGED revealed
    /\ UNCHANGED <<orchVars, clock>>

\* handleHRVideo (part_012:684-700): to the candidate only
HandleHRVideo(sock) ==
    /\ sock \in HrSockets \cap connected
    /\ sessions # 0
    /\ FindBySocket(heap[sessions].hrObservers, sock) # 0
    /\ LET ses == heap[sessions]
           o == ses.hrObservers[FindBySocket(ses.hrObservers, sock)]
       IN out' = IF CanRelay(o, "video", ses)
                 THEN {Ev(ses.candidateSocketId, "hr-video")}
                 ELSE {}
    /\ UNCHANGED <<heap, tasks, nEvents>>
    /\ Frame
    /\ UNCHANGED revealed
    /\ UNCHANGED <<orchVars, clock>>

\* -------------------------------------------------------------------- hr-note
\* handleHRNote (part_012:758-777): the INSERT of the note is awaited
HandleHRNote(sock) ==
    /\ sock \in HrSockets \cap connected
    /\ CanStartObs
    /\ sessions # 0
    /\ FindBySocket(heap[sessions].hrObservers, sock) # 0
    /\ tasks' = Append(tasks, Task("note", "note_db", sock, sessions))
    /\ nEvents' = nEvents + 1
    /\ out' = {}
    /\ UNCHANGED <<heap>>
    /\ Frame
    /\ UNCHANGED revealed
    /\ UNCHANGED <<orchVars, clock>>

\* a variant of HRNoteSaved that tells every observer of the session
HRNoteSavedBroadcast(t) ==
    /\ tasks[t].pc = "note_db"
    /\ tasks' = Finished(t)
    /\ out' = {Ev(tasks[t].sock, "note-saved")}
                \cup notifyHRObservers(sessions, heap, "note-saved")
    /\ UNCHANGED <<heap, nEvents>>
    /\ Frame
    /\ UNCHANGED revealed
    /\ UNCHANGED <<orchVars, clock>>

\* the INSERT returned (part_012:779-782): note-saved to the sender
HRNoteSaved(t) ==
    /\ tasks[t].pc = "note_db"
    /\ tasks' = Finished(t)
    /\ out' = {Ev(tasks[t].sock, "note-saved")}
    /\ UNCHANGED <<heap, nEvents>>
    /\ Frame
    /\ UNCHANGED revealed
    /\ UNCHANGED <<orchVars, clock>>

\* ------------------------------------------------------------ cleanup sweep
\* maxAge of cleanupSessions, 24 hours, in ticks of the clock
Retention == 2

\* time passes; a tick is half a day, and no handler is in flight that long
Tick ==
    /\ clock < MaxClock
    /\ tasks = <<>>
    /\ clock' = clock + 1
    /\ out' = {}
    /\ UNCHANGED <<sessions, heap, nAlloc, tasks, connected, dbStatus, dbTranscript,
                   reportCount, finalizeCount, startCount, nEvents, revealed>>
    /\ UNCHANGED orchVars

\* cleanupSessions (part_012:866-878): the session is deleted from the
\* registry if it is completed and older than maxAge, its age counted from
\* startedAt
cleanupSessions ==
    /\ sessions # 0
    /\ LET session == heap[sessions]
           age == clock - session.startedAt
       IN sessions' = IF session.status = "completed" /\ age > Retention
                      THEN 0
                      ELSE sessions
    /\ out' = {}
    /\ UNCHANGED <<heap, nAlloc, tasks, connected, dbStatus, dbTranscript,
                   reportCount, finalizeCount, startCount, nEvents, revealed>>
    /\ UNCHANGED <<orchVars, clock>>

\* ============================================================================
\* The voice gateway (part_006) and the InterviewOrchestrator it drives
\* ============================================================================
\* what the voice gateway never touches
registryVars == <<sessions, heap, nAlloc, startCount, revealed, clock>>

\* a socket event is taken by the voice gateway: a handler invocation starts
CanStartVoice ==
    /\ Len(tasks) < MaxTasks
    /\ nEvents < MaxOrchEvents
    /\ tasks = <<>> \/ nOverlap < MaxOverlaps

Overlap == IF tasks = <<>> THEN nOverlap ELSE nOverlap + 1

Min(a, b) == IF a <= b THEN a ELSE b

\* transcript.filter(m => m.speaker === 'candidate').length
CandidateMessages(transcript) ==
    Cardinality({i \in DOMAIN transcript : transcript[i].speaker = "candidate"})

\* this.phases.length - 1: the index of 'reflection' (InterviewOrchestrator.js:16)
LastPhase == 4

\* a variant of shouldAdvancePhase that is satisfied with two answers
shouldAdvancePhaseAfterTwo(o) ==
    (IF o.live_state.phase_index = o.currentPhaseIndex
     THEN CandidateMessages(o.transcript) ELSE 0) >= 2

\* shouldAdvancePhase (InterviewOrchestrator.js:350-360): the filter keeps
\* every candidate message when the persisted phase is the current one, and
\* none otherwise
shouldAdvancePhase(o) ==
    LET phaseMessages == IF o.live_state.phase_index = o.currentPhaseIndex
                         THEN CandidateMessages(o.transcript)
                         ELSE 0
        minQuestionsPerPhase == IF o.currentPhaseIndex = LastPhase THEN 2 ELSE 3
    IN phaseMessages >= minQuestionsPerPhase

\* shouldEndInterview (InterviewOrchestrator.js:365-378)
shouldEndInterview(o) ==
    IF o.currentPhaseIndex >= LastPhase
    THEN (IF o.live_state.phase_index = LastPhase
          THEN CandidateMessages(o.transcript) ELSE 0) >= 2
    ELSE CandidateMessages(o.transcript) >= 20

\* ------------------------------------------------------ part_006: the events
\* handleJoinInterview (part_006:570-616): the SELECT of the interview and
\* its invite is awaited
HandleJoinInterview(sock) ==
    /\ sock \in CandSockets \cap connected
    /\ InOrder(sock)
    /\ CanStartVoice
    /\ nEvents' = nEvents + 1
    /\ nOverlap' = Overlap
    /\ tasks' = Append(tasks, Task("join-interview", "o_join", sock, 0))
    /\ out' = {}
    /\ UNCHANGED <<activeSessions, orchs, nOrch, dbLive, failed, connected, dbStatus,
                   dbTranscript, reportCount, finalizeCount>>
    /\ UNCHANGED registryVars

\* the row came back: the socket's entry is stored anew, joined is emitted
JoinInterviewDone(t) ==
    /\ tasks[t].pc = "o_join"
    /\ activeSessions' = [activeSessions EXCEPT ![tasks[t].sock] = JoinedSession]
    /\ tasks' = Finished(t)
    /\ out' = {Ev(tasks[t].sock, "joined")}
    /\ UNCHANGED <<orchs, nOrch, dbLive, nOverlap, failed, connected, dbStatus,
                   dbTranscript, reportCount, finalizeCount, nEvents>>
    /\ UNCHANGED registryVars

\* no row for this interview and token, or the query threw: error
JoinInterviewRejected(t) ==
    /\ tasks[t].pc = "o_join"
    /\ tasks' = Finished(t)
    /\ out' = {Ev(tasks[t].sock, "error")}
    /\ UNCHANGED <<activeSessions, orchs, nOrch, dbLive, nOverlap, failed, connected, dbStatus,
                   dbTranscript, reportCount, finalizeCount, nEvents>>
    /\ UNCHANGED registryVars

\* handleStartInterview (part_006:621-636): a new orchestrator is put into
\* the socket's session and startInterview begins with loadContext
HandleStartInterview(sock) ==
    /\ sock \in CandSockets \cap connected
    /\ CanStartVoice
    /\ activeSessions[sock].joined
    /\ nOrch < MaxOrch
    /\ nOrch' = nOrch + 1
    /\ activeSessions' = [activeSessions EXCEPT ![sock].orchestrator = nOrch + 1]
    /\ nEvents' = nEvents + 1
    /\ nOverlap' = Overlap
    /\ tasks' = Append(tasks, [Task("start-interview", "st_load", sock, nOrch + 1)
                                 EXCEPT !.id = nEvents + 1])
    /\ out' = {}
    /\ UNCHANGED <<orchs, dbLive, failed, connected, dbStatus,
                   dbTranscript, reportCount, finalizeCount>>
    /\ UNCHANGED registryVars

\* start-interview or audio-complete with no session (or, for
\* audio-complete, no orchestrator): error (part_006:624-627, 686-689);
\* audio-chunk or end-interview in that case: nothing (664-666, 765-767)
HandleWithoutSession(sock, event) ==
    /\ sock \in CandSockets \cap connected
    /\ InOrder(sock)
    /\ nEvents < MaxOrchEvents
    /\ CASE event = "start-interview" -> ~activeSessions[sock].joined
         [] event = "audio-chunk" -> ~activeSessions[sock].joined
         [] OTHER -> activeSessions[sock].orchestrator = 0
    /\ nEvents' = nEvents + 1
    /\ out' = IF event \in {"start-interview", "audio-complete"}
              THEN {Ev(sock, "error")} ELSE {}
    /\ UNCHANGED <<activeSessions, orchs, nOrch, dbLive, nOverlap, failed, connected, dbStatus,
                   dbTranscript, reportCount, finalizeCount, tasks>>
    /\ UNCHANGED registryVars

\* handleAudioChunk (part_006:661-678)
HandleAudioChunk(sock) ==
    /\ sock \in CandSockets \cap connected
    /\ nEvents < MaxOrchEvents
    /\ activeSessions[sock].joined
    /\ activeSessions[sock].audioChunks < MaxChunks
    /\ activeSessions' = [activeSessions EXCEPT ![sock].audioChunks = @ + 1]
    /\ nEvents' = nEvents + 1
    /\ out' = {Ev(sock, "recording")}
    /\ UNCHANGED <<orchs, nOrch, dbLive, nOverlap, failed, connected, dbStatus,
                   dbTranscript, reportCount, finalizeCount, tasks>>
    /\ UNCHANGED registryVars

\* handleAudioComplete (part_006:683-703): the buffer is taken and cleared,
\* speechToText is awaited; the handler keeps the orchestrator it found
HandleAudioComplete(sock) ==
    /\ sock \in CandSockets \cap connected
    /\ CanStartVoice
    /\ activeSessions[sock].orchestrator # 0
    /\ activeSessions' = [activeSessions EXCEPT ![sock].audioChunks = 0]
    /\ nEvents' = nEvents + 1
    /\ nOverlap' = Overlap
    /\ tasks' = Append(tasks, [Task("audio-complete", "o_stt", sock,
                                    activeSessions[sock].orchestrator)
                                 EXCEPT !.id = nEvents + 1])
    /\ out' = {Ev(sock, "ai-thinking")}
    /\ UNCHANGED <<orchs, nOrch, dbLive, failed, connected, dbStatus,
                   dbTranscript, reportCount, finalizeCount>>
    /\ UNCHANGED registryVars

\* handleEndInterview (part_006:762-772): orchestrator.endInterview begins
\* with loadContext
HandleEndInterview(sock) ==
    /\ sock \in CandSockets \cap connected
    /\ CanStartVoice
    /\ activeSessions[sock].orchestrator # 0
    /\ nEvents' = nEvents + 1
    /\ nOverlap' = Overlap
    /\ tasks' = Append(tasks, [Task("end-interview", "oe_load", sock,
                                    activeSessions[sock].orchestrator)
                                 EXCEPT !.id = nEvents + 1])
    /\ out' = {}
    /\ UNCHANGED <<activeSessions, orchs, nOrch, dbLive, failed, connected, dbStatus,
                   dbTranscript, reportCount, finalizeCount>>
    /\ UNCHANGED registryVars

\* handleDisconnect (part_006:800-809): the socket's entry is deleted
HandleVoiceDisconnect(sock) ==
    /\ sock \in CandSockets \cap connected
    /\ InOrder(sock)
    /\ nEvents < MaxOrchEvents
    /\ connected' = connected \ {sock}
    /\ activeSessions' = [activeSessions EXCEPT ![sock] = NoSession]
    /\ nEvents' = nEvents + 1
    /\ out' = {}
    /\ UNCHANGED <<orchs, nOrch, dbLive, nOverlap, failed, dbStatus,
                   dbTranscript, reportCount, finalizeCount, tasks>>
    /\ UNCHANGED registryVars

\* --------------------------------------- the orchestrator calls, await by await
\* A query takes effect when the handler awaiting it resumes; its arguments
\* are those computed when it was issued.

\* speechToText returned (part_006:703-714): transcription is emitted and
\* processResponse begins with loadContext
SpeechToTextDone(t) ==
    /\ tasks[t].pc = "o_stt"
    /\ tasks' = [tasks EXCEPT ![t].pc = "pr_load"]
    /\ out' = {Ev(tasks[t].sock, "transcription"), Ev(tasks[t].sock, "ai-thinking")}
    /\ UNCHANGED <<activeSessions, orchs, nOrch, dbLive, nOverlap, failed, connected, dbStatus,
                   dbTranscript, reportCount, finalizeCount, nEvents>>
    /\ UNCHANGED registryVars

\* loadContext (InterviewOrchestrator.js:30-69): this.context is replaced by
\* the row, currentPhaseIndex by the row's phase_index
LoadContextDone(t) ==
    /\ tasks[t].pc \in {"st_load", "pr_load", "oe_load"}
    /\ orchs' = [orchs EXCEPT ![tasks[t].sess] =
                    [currentPhaseIndex |-> dbLive.phase_index,
                     transcript |-> dbTranscript,
                     live_state |-> dbLive]]
    /\ tasks' = [tasks EXCEPT ![t].pc = CASE @ = "st_load" -> "st_opening"
                                          [] @ = "pr_load" -> "pr_add_cand"
                                          [] OTHER -> "oe_closing"]
    /\ out' = {}
    /\ UNCHANGED <<activeSessions, nOrch, dbLive, nOverlap, failed, connected, dbStatus,
                   dbTranscript, reportCount, finalizeCount, nEvents>>
    /\ UNCHANGED registryVars

\* generateOpening, getNextQuestion or generateClosing returned: the message
\* goes to addToTranscript (InterviewOrchestrator.js:78-90, 178-179, 201-202)
MessageGenerated(t) ==
    /\ tasks[t].pc \in {"st_opening", "pr_question", "oe_closing"}
    /\ tasks' = [tasks EXCEPT ![t].pc = CASE @ = "st_opening" -> "st_add"
                                          [] @ = "pr_question" -> "pr_add_ai"
                                          [] OTHER -> "oe_add"]
    /\ out' = {}
    /\ UNCHANGED <<activeSessions, orchs, nOrch, dbLive, nOverlap, failed, connected, dbStatus,
                   dbTranscript, reportCount, finalizeCount, nEvents>>
    /\ UNCHANGED registryVars

\* addToTranscript (InterviewOrchestrator.js:288-305): the UPDATE appends
\* to the column, then the message is pushed to this.context.transcript
AddToTranscriptDone(t) ==
    /\ tasks[t].pc \in {"st_add", "pr_add_cand", "pr_add_ai", "oe_add"}
    /\ LET message == Turn(IF tasks[t].pc = "pr_add_cand" THEN "candidate" ELSE "ai",
                           tasks[t].id)
       IN /\ dbTranscript' = Append(dbTranscript, message)
          /\ orchs' = [orchs EXCEPT ![tasks[t].sess].transcript = Append(@, message)]
    /\ tasks' = [tasks EXCEPT ![t].pc = CASE @ = "st_add" -> "st_tts"
                                          [] @ = "pr_add_cand" -> "pr_checks"
                                          [] @ = "pr_add_ai" -> "pr_tts"
                                          [] OTHER -> "oe_report"]
    /\ out' = {}
    /\ UNCHANGED <<activeSessions, nOrch, dbLive, nOverlap, failed, connected, dbStatus,
                   reportCount, finalizeCount, nEvents>>
    /\ UNCHANGED registryVars

\* quickStressCheck and quickSignalCheck returned (neither throws):
\* updateLiveState builds newState from this.context.live_state and issues
\* its UPDATE (InterviewOrchestrator.js:114-126, 311-317)
MicroChecksDone(t, stress_level, quality) ==
    /\ tasks[t].pc = "pr_checks"
    /\ tasks' = [tasks EXCEPT ![t].pc = "pr_live",
                              ![t].arg = <<[orchs[tasks[t].sess].live_state
                                              EXCEPT !.stress_level = stress_level,
                                                     !.last_signal_check = quality]>>]
    /\ out' = {}
    /\ UNCHANGED <<activeSessions, orchs, nOrch, dbLive, nOverlap, failed, connected, dbStatus,
                   dbTranscript, reportCount, finalizeCount, nEvents>>
    /\ UNCHANGED registryVars

\* after the phase decision (InterviewOrchestrator.js:143-178): endInterview,
\* which begins with loadContext, or getNextQuestion.  The reassurance branch
\* needs stress_level 'high', which quickStressCheck never returns.
AfterPhase(o) ==
    IF shouldEndInterview(o) THEN "oe_load" ELSE "pr_question"

\* updateLiveState's UPDATE returned (InterviewOrchestrator.js:313-319): the
\* column and this.context.live_state become newState
UpdateLiveStateDone(t) ==
    /\ tasks[t].pc \in {"pr_live", "pr_phase"}
    /\ LET k == tasks[t].sess
           o == [orchs[k] EXCEPT !.live_state = tasks[t].arg[1]]
       IN /\ dbLive' = tasks[t].arg[1]
          /\ orchs' = [orchs EXCEPT ![k] = o]
          /\ tasks' = [tasks EXCEPT ![t].arg = <<>>,
                                    ![t].pc = IF @ = "pr_live" THEN "pr_log" ELSE AfterPhase(o)]
    /\ out' = {}
    /\ UNCHANGED <<activeSessions, nOrch, nOverlap, failed, connected, dbStatus,
                   dbTranscript, reportCount, finalizeCount, nEvents>>
    /\ UNCHANGED registryVars

\* both logObservation INSERTs returned (InterviewOrchestrator.js:129-140):
\* the phase decision; an advance issues updatePhaseIndex
ObservationsLogged(t) ==
    /\ tasks[t].pc = "pr_log"
    /\ LET k == tasks[t].sess
           index == Min(orchs[k].currentPhaseIndex + 1, LastPhase)
       IN IF shouldAdvancePhase(orchs[k])
          THEN /\ orchs' = [orchs EXCEPT ![k].currentPhaseIndex = index]
               /\ tasks' = [tasks EXCEPT ![t].pc = "pr_phase",
                                         ![t].arg = <<[orchs[k].live_state
                                                         EXCEPT !.phase_index = index]>>]
          ELSE /\ orchs' = orchs
               /\ tasks' = [tasks EXCEPT ![t].pc = AfterPhase(orchs[k])]
    /\ out' = {}
    /\ UNCHANGED <<activeSessions, nOrch, dbLive, nOverlap, failed, connected, dbStatus,
                   dbTranscript, reportCount, finalizeCount, nEvents>>
    /\ UNCHANGED registryVars

\* the three analyses and generateReport returned; the final UPDATE is
\* issued (InterviewOrchestrator.js:205-270)
ReportGenerated(t) ==
    /\ tasks[t].pc = "oe_report"
    /\ reportCount' = reportCount + 1
    /\ tasks' = [tasks EXCEPT ![t].pc = "oe_final"]
    /\ out' = {}
    /\ UNCHANGED <<activeSessions, orchs, nOrch, dbLive, nOverlap, failed, connected, dbStatus,
                   dbTranscript, finalizeCount, nEvents>>
    /\ UNCHANGED registryVars

\* the final UPDATE returned: status completed.  handleAudioComplete emits
\* interview-complete; both callers await textToSpeech (part_006:716-727, 775)
FinalUpdateDone(t) ==
    /\ tasks[t].pc = "oe_final"
    /\ dbStatus' = "completed"
    /\ finalizeCount' = finalizeCount + 1
    /\ tasks' = [tasks EXCEPT ![t].pc = "oe_tts"]
    /\ out' = IF tasks[t].kind = "audio-complete"
              THEN {Ev(tasks[t].sock, "interview-complete")} ELSE {}
    /\ UNCHANGED <<activeSessions, orchs, nOrch, dbLive, nOverlap, failed, connected,
                   dbTranscript, reportCount, nEvents>>
    /\ UNCHANGED registryVars

\* textToSpeech returned: the handler's last emit; after an ending the
\* socket's entry is deleted (part_006:645-649, 729-749, 780-787)
TextToSpeechDone(t) ==
    /\ tasks[t].pc \in {"st_tts", "pr_tts", "oe_tts"}
    /\ activeSessions' = IF tasks[t].pc = "oe_tts"
                         THEN [activeSessions EXCEPT ![tasks[t].sock] = NoSession]
                         ELSE activeSessions
    /\ tasks' = Finished(t)
    /\ out' = {Ev(tasks[t].sock,
                  IF tasks[t].kind = "end-interview" THEN "interview-ended" ELSE "ai-speaking")}
    /\ UNCHANGED <<orchs, nOrch, dbLive, nOverlap, failed, connected, dbStatus,
                   dbTranscript, reportCount, finalizeCount, nEvents>>
    /\ UNCHANGED registryVars

\* a handler whose micro-analyses reject: VoiceHandlerFails as it would be
\* if quickStressCheck and quickSignalCheck let their errors out
VoiceHandlerFailsAtChecks(t) ==
    /\ tasks[t].pc \in {"pr_checks", "pr_live", "pr_log"}
    /\ failed' = TRUE
    /\ tasks' = Finished(t)
    /\ out' = {Ev(tasks[t].sock, "error")}
    /\ UNCHANGED <<activeSessions, orchs, nOrch, dbLive, nOverlap, connected, dbStatus,
                   dbTranscript, reportCount, finalizeCount, nEvents>>
    /\ UNCHANGED registryVars

\* an awaited call threw: the handler's catch emits error
\* (part_006:652-655, 753-756, 791-794)
VoiceHandlerFails(t) ==
    /\ tasks[t].pc \in {"o_stt", "st_load", "pr_load", "oe_load", "st_opening", "pr_question",
                        "oe_closing", "st_add", "pr_add_cand", "pr_add_ai", "oe_add",
                        "pr_live", "pr_phase", "pr_log", "oe_report", "oe_final",
                        "st_tts", "pr_tts", "oe_tts"}
    /\ failed' = TRUE
    /\ tasks' = Finished(t)
    /\ out' = {Ev(tasks[t].sock, "error")}
    /\ UNCHANGED <<activeSessions, orchs, nOrch, dbLive, nOverlap, connected, dbStatus,
                   dbTranscript, reportCount, finalizeCount, nEvents>>
    /\ UNCHANGED registryVars

\* ============================================================================
\* The voice gateway, one handler at a time: every handler runs to its
\* return before the next socket event is taken
\* ============================================================================
\* the candidate's socket in the one-at-a-time system
Solo == "c1"

\* the calls of a candidate turn that may throw in the one-at-a-time system
Throwers == {"none", "logObservation", "generateClosing"}

\* loadContext (InterviewOrchestrator.js:30-69) on a row read at once
loadContext(transcript, live_state) ==
    [currentPhaseIndex |-> live_state.phase_index,
     transcript |-> transcript,
     live_state |-> live_state]

\* the phase decision of processResponse (InterviewOrchestrator.js:132-140)
\* on an orchestrator o: the orchestrator after it
advancePhase(o) ==
    IF shouldAdvancePhase(o)
    THEN LET index == Min(o.currentPhaseIndex + 1, LastPhase)
         IN [o EXCEPT !.currentPhaseIndex = index, !.live_state.phase_index = index]
    ELSE o

\* the socket events of the one-at-a-time system are taken while no handler
\* is in flight
CanStartAlone(sock) ==
    /\ sock = Solo
    /\ sock \in connected
    /\ tasks = <<>>
    /\ nEvents < MaxTurnEvents

\* handleJoinInterview (part_006:570-616), run to its return with a valid
\* token, by a socket that has no session
JoinInterviewAlone(sock) ==
    /\ CanStartAlone(sock)
    /\ ~activeSessions[sock].joined
    /\ activeSessions' = [activeSessions EXCEPT ![sock] = JoinedSession]
    /\ nEvents' = nEvents + 1
    /\ out' = {Ev(sock, "joined")}
    /\ UNCHANGED <<orchs, nOrch, dbLive, nOverlap, failed, connected, dbStatus,
                   dbTranscript, reportCount, finalizeCount, tasks>>
    /\ UNCHANGED registryVars

\* handleStartInterview (part_006:621-656) with orchestrator.startInterview
\* (InterviewOrchestrator.js:74-100), run to its return, by a socket whose
\* session has no orchestrator
StartInterviewAlone(sock) ==
    /\ CanStartAlone(sock)
    /\ activeSessions[sock].joined
    /\ activeSessions[sock].orchestrator = 0
    /\ nOrch < MaxTurnOrch
    /\ LET opening == Turn("ai", nEvents + 1)
       IN /\ dbTranscript' = Append(dbTranscript, opening)
          /\ orchs' = [orchs EXCEPT ![nOrch + 1] =
                          [loadContext(dbTranscript, dbLive)
                             EXCEPT !.transcript = Append(@, opening)]]
    /\ nOrch' = nOrch + 1
    /\ activeSessions' = [activeSessions EXCEPT ![sock].orchestrator = nOrch + 1]
    /\ nEvents' = nEvents + 1
    /\ out' = {Ev(sock, "ai-speaking")}
    /\ UNCHANGED <<dbLive, nOverlap, failed, connected, dbStatus,
                   reportCount, finalizeCount, tasks>>
    /\ UNCHANGED registryVars

\* handleAudioComplete (part_006:683-757) with processResponse
\* (InterviewOrchestrator.js:106-191) and, when the phase machine says so,
\* endInterview (196-283), run to the handler's return.  thrown names the
\* call that throws, if one does.
AudioCompleteAlone(sock, stress_level, quality, thrown) ==
    /\ CanStartAlone(sock)
    /\ activeSessions[sock].orchestrator # 0
    /\ LET k == activeSessions[sock].orchestrator
           candidate == Turn("candidate", nEvents + 1)
           ai == Turn("ai", nEvents + 1)
           \* loadContext, addToTranscript, the micro checks, updateLiveState
           o1 == [loadContext(dbTranscript, dbLive)
                    EXCEPT !.transcript = Append(@, candidate),
                           !.live_state.stress_level = stress_level,
                           !.live_state.last_signal_check = quality]
           \* the phase decision and updatePhaseIndex
           o2 == advancePhase(o1)
           ending == shouldEndInterview(o2)
       IN /\ thrown = "getNextQuestion" => ~ending
          /\ thrown = "generateClosing" => ending
          /\ CASE thrown = "logObservation" ->
                    /\ orchs' = [orchs EXCEPT ![k] = o1]
                    /\ dbLive' = o1.live_state
                    /\ dbTranscript' = Append(dbTranscript, candidate)
                    /\ out' = {Ev(sock, "error")}
                    /\ UNCHANGED <<activeSessions, dbStatus, reportCount, finalizeCount>>
               [] thrown = "generateClosing" ->
                    /\ orchs' = [orchs EXCEPT ![k] = o2]
                    /\ dbLive' = o2.live_state
                    /\ dbTranscript' = Append(dbTranscript, candidate)
                    /\ out' = {Ev(sock, "error")}
                    /\ UNCHANGED <<activeSessions, dbStatus, reportCount, finalizeCount>>
               [] OTHER ->
                    /\ orchs' = [orchs EXCEPT ![k] = [o2 EXCEPT !.transcript = Append(@, ai)]]
                    /\ dbLive' = o2.live_state
                    /\ dbTranscript' = Append(Append(dbTranscript, candidate), ai)
                    /\ IF ending
                       THEN /\ dbStatus' = "completed"
                            /\ reportCount' = reportCount + 1
                            /\ finalizeCount' = finalizeCount + 1
                            /\ activeSessions' = [activeSessions EXCEPT ![sock] = NoSession]
                            /\ out' = {Ev(sock, "interview-complete"), Ev(sock, "ai-speaking")}
                       ELSE /\ out' = {Ev(sock, "ai-speaking")}
                            /\ UNCHANGED <<activeSessions, dbStatus, reportCount,
                                           finalizeCount>>
    /\ failed' = (failed \/ thrown # "none")
    /\ nEvents' = nEvents + 1
    /\ UNCHANGED <<nOrch, nOverlap, connected, tasks>>
    /\ UNCHANGED registryVars

\* handleEndInterview (part_006:762-795) with endInterview
\* (InterviewOrchestrator.js:196-283), run to its return
EndInterviewAlone(sock) ==
    /\ CanStartAlone(sock)
    /\ activeSessions[sock].orchestrator # 0
    /\ LET k == activeSessions[sock].orchestrator
           closing == Turn("ai", nEvents + 1)
       IN /\ orchs' = [orchs EXCEPT ![k] = [loadContext(dbTranscript, dbLive)
                                              EXCEPT !.transcript = Append(@, closing)]]
          /\ dbTranscript' = Append(dbTranscript, closing)
    /\ dbStatus' = "completed"
    /\ reportCount' = reportCount + 1
    /\ finalizeCount' = finalizeCount + 1
    /\ activeSessions' = [activeSessions EXCEPT ![sock] = NoSession]
    /\ nEvents' = nEvents + 1
    /\ out' = {Ev(sock, "interview-ended")}
    /\ UNCHANGED <<nOrch, dbLive, nOverlap, failed, connected, tasks>>
    /\ UNCHANGED registryVars

\* --------------------------------------------------------------- the systems
\* join-interview, shared by both systems
JoinNext ==
    \/ \E s \in Sockets : HandleCandidateJoin(s)
    \/ \E t \in DOMAIN tasks : CandidateJoinSelectFails(t)
    \/ \E t \in DOMAIN tasks : CandidateJoinCreate(t)
    \/ \E t \in DOMAIN tasks : CandidateRejoin(t)
    \/ \E t \in DOMAIN tasks : CandidateJoinUpdated(t)
    \/ \E t \in DOMAIN tasks : CandidateJoinStartFails(t)
    \/ \E t \in DOMAIN tasks, q \in BOOLEAN : CandidateJoinStarted(t, q)
    \/ \E s \in Sockets : HandleDisconnect(s)
    \/ \E s \in Sockets : HandleHRPause(s)

\* the candidate's session: join, input, termination, pause, disconnect
Next ==
    \/ JoinNext
    \/ \E t \in DOMAIN tasks : CandidateJoinRejected(t)
    \/ \E s \in Sockets : HandleCandidateText(s)
    \/ \E s \in Sockets : HandleCandidateInputIgnored(s)
    \/ \E s \in Sockets : HandleCandidateAudio(s)
    \/ \E t \in DOMAIN tasks : AudioTranscribed(t)
    \/ \E t \in DOMAIN tasks : AudioEmpty(t)
    \/ \E t \in DOMAIN tasks : HandlerFails(t)
    \/ \E t \in DOMAIN tasks : NextQuestion(t)
    \/ \E t \in DOMAIN tasks : QuestionSpoken(t)
    \/ \E t \in DOMAIN tasks : NoMoreQuestions(t)
    \/ \E s \in Sockets : HandleHREndInterview(s)
    \/ \E t \in DOMAIN tasks : EndReportDone(t)
    \/ \E t \in DOMAIN tasks : EndUpdateDone(t)
    \/ \E t \in DOMAIN tasks : EndSaveDone(t)

Spec == Init /\ [][Next]_vars

\* the observers of a session: join, the observer handlers, pause, disconnect
ObsNext ==
    \/ JoinNext
    \/ \E s \in Sockets : HandleHRJoinNotFound(s)
    \/ \E s \in Sockets, u \in HrUsers : HandleHRJoinExisting(s, u)
    \/ \E s \in Sockets, u \in HrUsers : HandleHRJoinNew(s, u)
    \/ \E t \in DOMAIN tasks : HRJoinSaved(t)
    \/ \E t \in DOMAIN tasks : HRHandlerFails(t)
    \/ \E s \in Sockets, e \in BOOLEAN : HandleHRNotObserver(s, e)
    \/ \E s \in Sockets : HandleHRReveal(s)
    \/ \E t \in DOMAIN tasks : HRRevealed(t)
    \/ \E s \in Sockets : HandleHRAudioOn(s)
    \/ \E t \in DOMAIN tasks : HRAudioToggled(t)
    \/ \E t \in DOMAIN tasks : HRAudioToggleFails(t)
    \/ \E s \in Sockets, m \in {"audio", "video"}, e \in BOOLEAN : HandleHRToggleSync(s, m, e)
    \/ \E s \in Sockets : HandleHRAudio(s)
    \/ \E s \in Sockets : HandleHRVideo(s)
    \/ \E s \in Sockets : HandleHRNote(s)
    \/ \E t \in DOMAIN tasks : HRNoteSaved(t)

ObsSpec == Init /\ [][ObsNext]_vars

\* the voice gateway with its orchestrators
OrchNext ==
    \/ \E s \in Sockets : HandleJoinInterview(s)
    \/ \E t \in DOMAIN tasks : JoinInterviewDone(t)
    \/ \E t \in DOMAIN tasks : JoinInterviewRejected(t)
    \/ \E s \in Sockets : HandleStartInterview(s)
    \/ \E s \in Sockets,
          e \in {"start-interview", "audio-chunk", "audio-complete", "end-interview"} :
            HandleWithoutSession(s, e)
    \/ \E s \in Sockets : HandleAudioChunk(s)
    \/ \E s \in Sockets : HandleAudioComplete(s)
    \/ \E s \in Sockets : HandleEndInterview(s)
    \/ \E s \in Sockets : HandleVoiceDisconnect(s)
    \/ \E t \in DOMAIN tasks : SpeechToTextDone(t)
    \/ \E t \in DOMAIN tasks : LoadContextDone(t)
    \/ \E t \in DOMAIN tasks : MessageGenerated(t)
    \/ \E t \in DOMAIN tasks : AddToTranscriptDone(t)
    \/ \E t \in DOMAIN tasks, l \in StressLevels, q \in SignalQualities :
          MicroChecksDone(t, l, q)
    \/ \E t \in DOMAIN tasks : UpdateLiveStateDone(t)
    \/ \E t \in DOMAIN tasks : ObservationsLogged(t)
    \/ \E t \in DOMAIN tasks : ReportGenerated(t)
    \/ \E t \in DOMAIN tasks : FinalUpdateDone(t)
    \/ \E t \in DOMAIN tasks : TextToSpeechDone(t)
    \/ \E t \in DOMAIN tasks : VoiceHandlerFails(t)

OrchSpec == Init /\ [][OrchNext]_vars

\* the voice gateway, one handler at a time
TurnNext ==
    \/ \E s \in Sockets : JoinInterviewAlone(s)
    \/ \E s \in Sockets : StartInterviewAlone(s)
    \/ \E s \in Sockets, l \in StressLevels, q \in SignalQualities, x \in Throwers :
          AudioCompleteAlone(s, l, q, x)
    \/ \E s \in Sockets : EndInterviewAlone(s)

TurnSpec == Init /\ [][TurnNext]_vars

\* a termination whose collaborators succeed: join, observers joining,
\* hr-end-interview, pause, disconnect.  An awaited call that does not throw
\* returns, and the event loop then runs the handler on: weak fairness of
\* each step of endInterview.
EndNext ==
    \/ JoinNext
    \/ \E s \in Sockets, u \in HrUsers : HandleHRJoinNew(s, u)
    \/ \E t \in DOMAIN tasks : HRJoinSaved(t)
    \/ \E s \in Sockets : HandleHREndInterviewWithin(s, MaxObsEvents)
    \/ \E t \in DOMAIN tasks : EndReportDone(t)
    \/ \E t \in DOMAIN tasks : EndUpdateDone(t)
    \/ \E t \in DOMAIN tasks : EndSaveDone(t)

EndSpec ==
    /\ Init
    /\ [][EndNext]_vars
    /\ WF_vars(\E t \in DOMAIN tasks : EndReportDone(t))
    /\ WF_vars(\E t \in DOMAIN tasks : EndUpdateDone(t))
    /\ WF_vars(\E t \in DOMAIN tasks : EndSaveDone(t))

\* a session in the registry over time: join, termination, pause,
\* disconnect, the clock and the sweep
SweepNext ==
    \/ JoinNext
    \/ \E s \in Sockets : HandleHREndInterview(s)
    \/ \E t \in DOMAIN tasks : EndReportDone(t)
    \/ \E t \in DOMAIN tasks : EndUpdateDone(t)
    \/ \E t \in DOMAIN tasks : EndSaveDone(t)
    \/ \E t \in DOMAIN tasks : HandlerFails(t)
    \/ Tick
    \/ cleanupSessions

SweepSpec == Init /\ [][SweepNext]_vars
\* ------------------------------------------------- properties of the gateway
IsPrefix(a, b) ==
    /\ Len(a) <= Len(b)
    /\ \A i \in 1 .. Len(a) : a[i] = b[i]

\* the transcript of the interview's session, as the registry shows it
RegTranscript ==
    IF sessions = 0 THEN <<>> ELSE heap[sessions].transcript

\* C1: every interview is finalized at most once: one macro analysis and
\* report, one write of status completed, whatever mix of hr-end-interview
\* and ending candidate turns arrives.
C1_FinalizedOnce ==
    reportCount <= 1 /\ finalizeCount <= 1

\* C2: two concurrent join-interview events of one interview never leave two
\* handlers each holding a session object of its own, each running
\* startInterview.
C2_ConcurrentJoinsOneSession ==
    \A t1, t2 \in DOMAIN tasks :
        (t1 # t2 /\ tasks[t1].kind = "join" /\ tasks[t2].kind = "join")
            => ~(tasks[t1].sess # 0 /\ tasks[t2].sess # 0)

\* C5: the transcript of the interview's session only grows: what is seen at
\* one step is a prefix of what is seen at the next.
C5_TranscriptAppendOnly ==
    [][IsPrefix(RegTranscript, RegTranscript')]_vars

\* C6: a candidate's disconnect changes nothing in the session but the
\* candidate socket, which it clears; a join-interview that finds the session
\* in the registry changes nothing but the candidate socket, which it sets;
\* and no session object is built while the registry holds one.  Transcript,
\* orchestrator and pause flag are the ones from before.
C6_ReconnectKeepsSession ==
    [][/\ \A c \in CandSockets :
            (HandleDisconnect(c) /\ sessions # 0)
                => /\ sessions' = sessions
                   /\ heap'[sessions].transcript = heap[sessions].transcript
                   /\ heap'[sessions].orchestrator = heap[sessions].orchestrator
                   /\ heap'[sessions].isPaused = heap[sessions].isPaused
                   /\ heap'[sessions].status = heap[sessions].status
                   /\ heap'[sessions].candidateSocketId \in
                          {NULL, heap[sessions].candidateSocketId} \ {c}
       /\ \A t \in DOMAIN tasks :
            CandidateRejoin(t)
                => /\ sessions' = sessions
                   /\ heap' = [heap EXCEPT ![sessions].candidateSocketId = tasks[t].sock]
       /\ nAlloc' # nAlloc => sessions = 0]_vars

\* a candidate came back on another socket to a session that has a transcript
C6_Rejoined ==
    /\ sessions # 0
    /\ "c1" \notin connected
    /\ heap[sessions].candidateSocketId = "c2"
    /\ heap[sessions].transcript # <<>>
    /\ InterviewJoined("c2", heap[sessions]) \in out

\* C7: for one observer entry the candidate gets participant-joined at most
\* once, however often hr-reveal is sent.
C7_RevealAnnouncedOnce ==
    \A o \in ObjIds : \A i \in DOMAIN heap[o].hrObservers :
        heap[o].hrObservers[i].pj <= 1

\* the sender of an hr-audio or hr-video event is a visible observer of the
\* interview's session with that modality switched on
SenderHas(h, flag) ==
    /\ sessions # 0
    /\ LET i == FindBySocket(heap[sessions].hrObservers, h)
       IN /\ i # 0
          /\ heap[sessions].hrObservers[i].visible
          /\ heap[sessions].hrObservers[i][flag]

\* C8: with a candidate bound, an hr-audio event reaches the candidate
\* exactly if its sender is visible with audio on, an hr-video event exactly
\* if its sender is visible with video on; and nothing else sends the
\* candidate hr-audio or hr-video.
C8_RelayIffVisibleAndEnabled ==
    [][/\ \A h \in HrSockets :
            (HandleHRAudio(h) /\ heap[sessions].candidateSocketId # NULL)
                => (Ev(heap[sessions].candidateSocketId, "hr-audio") \in out'
                        <=> SenderHas(h, "audio"))
       /\ \A h \in HrSockets :
            (HandleHRVideo(h) /\ heap[sessions].candidateSocketId # NULL)
                => (Ev(heap[sessions].candidateSocketId, "hr-video") \in out'
                        <=> SenderHas(h, "video"))
       /\ \A e \in out' :
            (e.ev \in {"hr-audio", "hr-video"} /\ e.to \in CandSockets)
                => \E h \in HrSockets :
                      \/ HandleHRAudio(h) /\ e.ev = "hr-audio" /\ SenderHas(h, "audio")
                      \/ HandleHRVideo(h) /\ e.ev = "hr-video" /\ SenderHas(h, "video")]_vars

\* the candidate was sent an observer's audio
C8_AudioRelayed ==
    \E c \in CandSockets : Ev(c, "hr-audio") \in out

\* C9: an hrUserId that was revealed stays visible: whenever it has an entry
\* in the interview's session afterwards, also after a disconnect and a new
\* hr-join, that entry is visible.
C9_VisibleStaysVisible ==
    \A u \in revealed :
        sessions # 0 =>
            \A i \in DOMAIN heap[sessions].hrObservers :
                heap[sessions].hrObservers[i].userId = u
                    => heap[sessions].hrObservers[i].visible
\* ------------------------------------------- properties of the voice gateway
\* C3: no Candidate turn of another input is appended between the Candidate
\* turn of an input and the AI turn that answers it.
C3_InputsDoNotInterleave ==
    \A i, j \in DOMAIN dbTranscript :
        (/\ i < j
         /\ dbTranscript[i].speaker = "candidate"
         /\ dbTranscript[j].speaker = "ai"
         /\ dbTranscript[j].id = dbTranscript[i].id)
            => \A k \in (i + 1) .. (j - 1) : dbTranscript[k].speaker # "candidate"

\* C4: neither the persisted phase_index nor the currentPhaseIndex of any
\* orchestrator decreases in a step.
C4_PhaseIndexNeverDecreases ==
    [][/\ dbLive'.phase_index >= dbLive.phase_index
       /\ \A k \in OrchIds : orchs'[k].currentPhaseIndex >= orchs[k].currentPhaseIndex]_vars

\* the phase index that the spec's scenario gives after n candidate turns
\* in Warmup, n up to 3
PhaseAfter(n) == IF n < 3 THEN 0 ELSE 1

\* C10: when candidate turns were processed one at a time and to the end
\* (no handler overlapped another, no call threw, none is in flight), the
\* phase index, persisted and in every orchestrator that has loaded the
\* interview, is 0 after one and after two candidate turns and 1 after three.
C10_WarmupLeftAfterThirdTurn ==
    (nOverlap = 0 /\ ~failed /\ tasks = <<>> /\ CandidateMessages(dbTranscript) <= 3)
        => /\ dbLive.phase_index = PhaseAfter(CandidateMessages(dbTranscript))
           /\ \A k \in 1 .. nOrch :
                /\ orchs[k].currentPhaseIndex = PhaseAfter(CandidateMessages(orchs[k].transcript))
                /\ orchs[k].live_state.phase_index = orchs[k].currentPhaseIndex

\* three candidate turns were processed one at a time and the interview is
\* in its second phase
C10_ThirdTurnProcessed ==
    /\ nOverlap = 0 /\ ~failed /\ tasks = <<>>
    /\ CandidateMessages(dbTranscript) = 3
    /\ dbLive.phase_index = 1
    /\ \E k \in 1 .. nOrch : orchs[k].currentPhaseIndex = 1
\* ------------------------------- properties of the phase machine, turn by turn
\* C11: a phase before Reflection is left only after three candidate turns
\* of its own, so an interview in phase p has had at least 3 * p candidate
\* turns.
C11_ThreeTurnsPerPhase ==
    3 * dbLive.phase_index <= CandidateMessages(dbTranscript)

\* C12: below the cap of 20, a candidate turn that terminates the interview
\* was given while the interview already was in Reflection: the turn that
\* enters Reflection does not terminate it.
C12_EnteringReflectionDoesNotEnd ==
    [][(/\ CandidateMessages(dbTranscript') > CandidateMessages(dbTranscript)
        /\ CandidateMessages(dbTranscript') < 20
        /\ finalizeCount' > finalizeCount)
           => dbLive.phase_index = LastPhase]_vars

\* C13: an interview that is not completed never holds more than 20
\* candidate turns.
C13_CapOfTwentyTurns ==
    dbStatus # "completed" => CandidateMessages(dbTranscript) <= 20

\* ------------------------------------------------- properties of the pause
\* C14: while the session is paused no turn is appended to its transcript,
\* also by an input that was in flight when hr-pause arrived.
C14_NoTurnWhilePaused ==
    [][IF sessions # 0 /\ sessions' = sessions
       THEN (heap[sessions].isPaused /\ heap'[sessions].isPaused)
               => heap'[sessions].transcript = heap[sessions].transcript
       ELSE TRUE]_vars

\* ------------------------------------------------ properties of the observers
\* C15: hr-join with no session sends an error to the sender and leaves the
\* registry as it is, and a session enters the registry only at the end of a
\* candidate's join; an observer list grows by exactly one entry at a time,
\* for a user that was not in it, and the entry is hidden with audio and video
\* disabled.
C15_HRJoinAddsOneHiddenObserver ==
    [][/\ \A h \in HrSockets :
            HandleHRJoinNotFound(h)
               => Ev(h, "error") \in out' /\ sessions' = 0 /\ heap' = heap
       /\ (sessions = 0 /\ sessions' # 0)
             => \E t \in DOMAIN tasks :
                   /\ tasks[t].pc = "join_start"
                   /\ tasks[t].sock \in CandSockets
                   /\ sessions' = tasks[t].sess
       /\ \A i \in ObjIds :
            LET old == heap[i].hrObservers
                new == heap'[i].hrObservers
            IN Len(new) > Len(old)
                  => /\ Len(new) = Len(old) + 1
                     /\ SubSeq(new, 1, Len(old)) = old
                     /\ FindByUser(old, new[Len(new)].userId) = 0
                     /\ ~new[Len(new)].visible
                     /\ ~new[Len(new)].audio
                     /\ ~new[Len(new)].video]_vars

\* two users have joined as observers; the second got its observer-joined
C15_TwoObserversJoined ==
    /\ sessions # 0
    /\ Len(heap[sessions].hrObservers) = 2
    /\ \E h \in HrSockets : Ev(h, "observer-joined") \in out
    /\ \A i \in DOMAIN heap[sessions].hrObservers : ~heap[sessions].hrObservers[i].visible

\* ------------------------------------------------ properties of the registry
\* C16: a session leaves the registry only if it is completed and the
\* retention window has elapsed since its completion.
C16_RemovedOnlyAfterRetention ==
    [][(sessions # 0 /\ sessions' = 0)
          => /\ heap[sessions].status = "completed"
             /\ clock - heap[sessions].completedAt >= Retention]_vars

\* ------------------------------------------ properties of collaborator failures
\* C17: when a collaborator throws under a candidate input, the sender gets
\* an error event, and the step that reports the error leaves the registry,
\* the session object (its status, its transcript) and the stored status as
\* they were, so that later input meets the same session.
C17_FailureLeavesSessionActive ==
    [][\A t \in DOMAIN tasks :
          tasks[t].kind \in {"text", "audio"}
             => /\ HandlerFails(t) => Ev(tasks[t].sock, "error") \in out'
                /\ (Ev(tasks[t].sock, "error") \in out' /\ tasks' = Finished(t))
                      => /\ sessions' = sessions
                         /\ heap' = heap
                         /\ dbStatus' = dbStatus]_vars

\* the second event, a candidate input, failed: its Candidate turn has no AI
\* turn; the third event, a later input, has just been answered
C17_InputAfterFailure ==
    /\ tasks = <<>>
    /\ sessions # 0
    /\ heap[sessions].status = "active"
    /\ LET transcript == heap[sessions].transcript
       IN /\ \E i \in DOMAIN transcript : transcript[i] = Turn("Candidate", 2)
          /\ \A i \in DOMAIN transcript : transcript[i] # Turn("AI", 2)
          /\ \E i \in DOMAIN transcript : transcript[i] = Turn("AI", 3)
    /\ Ev(heap[sessions].candidateSocketId, "ai-question") \in out

\* C18: a candidate audio input whose transcription is empty or failed ends
\* without a Candidate turn and with an error event to the candidate.
C18_EmptyTranscriptionSurfacesError ==
    [][\A t \in DOMAIN tasks :
          (tasks[t].kind = "audio" /\ tasks[t].pc = "stt" /\ tasks' = Finished(t))
             => /\ heap' = heap
                /\ Ev(tasks[t].sock, "error") \in out']_vars

\* C19: hr-note sends nothing when it is taken, and when its INSERT is over
\* it sends an event to the sending observer only; the session object (its
\* transcript, its pause flag) and the phase index are left as they were.
C19_NoteIsPrivate ==
    [][/\ \A t \in DOMAIN tasks :
            (tasks[t].kind = "note" /\ tasks' = Finished(t))
               => /\ out' \in {{Ev(tasks[t].sock, "note-saved")}, {Ev(tasks[t].sock, "error")}}
                  /\ heap' = heap
                  /\ sessions' = sessions
                  /\ UNCHANGED <<orchs, dbLive>>
       /\ (Len(tasks') = Len(tasks) + 1 /\ tasks'[Len(tasks')].kind = "note")
             => /\ out' = {}
                /\ heap' = heap
                /\ sessions' = sessions
                /\ UNCHANGED <<orchs, dbLive>>]_vars

\* a note of one of two observers has just been saved, the candidate bound
C19_NoteSavedAmongTwo ==
    /\ sessions # 0
    /\ heap[sessions].candidateSocketId # NULL
    /\ Len(heap[sessions].hrObservers) = 2
    /\ \E i \in {1, 2} :
          /\ out = {Ev(heap[sessions].hrObservers[i].socketId, "note-saved")}
          /\ heap[sessions].hrObservers[3 - i].socketId # heap[sessions].hrObservers[i].socketId

\* C20: media of a visible observer with the flag on, sent while a candidate
\* is bound, reaches the candidate and every other observer's socket, audio
\* and video alike, and never the sender; media of a hidden observer, or
\* with the flag off, reaches no observer.
C20_MediaReachesOtherObservers ==
    [][\A h \in HrSockets, m \in {"audio", "video"} :
          ((IF m = "audio" THEN HandleHRAudio(h) ELSE HandleHRVideo(h))
              /\ heap[sessions].candidateSocketId # NULL)
             => LET obs == heap[sessions].hrObservers
                    ev == IF m = "audio" THEN "hr-audio" ELSE "hr-video"
                IN IF SenderHas(h, m)
                   THEN /\ Ev(heap[sessions].candidateSocketId, ev) \in out'
                        /\ Ev(h, ev) \notin out'
                        /\ \A i \in DOMAIN obs :
                              obs[i].socketId # h => Ev(obs[i].socketId, ev) \in out'
                   ELSE \A i \in DOMAIN obs : Ev(obs[i].socketId, ev) \notin out']_vars

\* C21: when the socket of an observer disconnects, the entry bound to that
\* socket leaves the observer list and nothing else of the session changes:
\* its status, transcript, pause flag, candidate socket, orchestrator (which
\* holds the phase) and the other entries stay, and so does the registry.
C21_ObserverDisconnectFrame ==
    [][\A h \in HrSockets :
          (HandleDisconnect(h) /\ sessions # 0)
             => LET ses == heap[sessions]
                    new == heap'[sessions]
                    i == FindBySocket(ses.hrObservers, h)
                IN /\ sessions' = sessions
                   /\ [new EXCEPT !.hrObservers = <<>>] = [ses EXCEPT !.hrObservers = <<>>]
                   /\ UNCHANGED <<dbStatus, dbTranscript, orchs, dbLive>>
                   /\ IF i = 0
                      THEN new.hrObservers = ses.hrObservers
                      ELSE /\ Len(new.hrObservers) = Len(ses.hrObservers) - 1
                           /\ \A k \in DOMAIN new.hrObservers :
                                 new.hrObservers[k]
                                    = ses.hrObservers[IF k < i THEN k ELSE k + 1]]_vars

\* u1 was an observer (it was revealed) and its socket h1 has disconnected;
\* u2 on h2 is the one observer left, the candidate is still bound
C21_OneObserverLeft ==
    /\ sessions # 0
    /\ "u1" \in revealed
    /\ "h1" \notin connected
    /\ heap[sessions].candidateSocketId # NULL
    /\ Len(heap[sessions].hrObservers) = 1
    /\ heap[sessions].hrObservers[1].userId = "u2"
    /\ heap[sessions].hrObservers[1].socketId = "h2"

\* ------------------------------------------------ properties of termination
\* C22: a session for which hr-end-interview is in flight reaches status
\* completed, whatever its pause flag and its turns, and in the step that
\* completes it every observer in its list is sent interview-completed.
C22_HREndCompletesAndReports ==
    /\ \A o \in ObjIds :
          (\E t \in DOMAIN tasks : tasks[t].kind = "hrend" /\ tasks[t].sess = o)
             ~> (heap[o].status = "completed")
    /\ [][\A o \in ObjIds :
             (heap[o].status # "completed" /\ heap'[o].status = "completed")
                => \A i \in DOMAIN heap[o].hrObservers :
                      Ev(heap[o].hrObservers[i].socketId, "interview-completed") \in out']_vars

\* -------------------------------------------- properties of the candidate binding
\* C23: a session has one candidate socket; a join-interview that finds the
\* session binds it to the joining socket, and the disconnect of a socket
\* clears the binding only if that socket is the one bound: the disconnect of
\* the old socket after a rejoin leaves the new binding.
C23_LateDisconnectKeepsBinding ==
    [][/\ \A c \in Sockets :
            (HandleDisconnect(c) /\ sessions # 0)
               => heap'[sessions].candidateSocketId
                     = IF heap[sessions].candidateSocketId = c
                       THEN NULL
                       ELSE heap[sessions].candidateSocketId
       /\ \A t \in DOMAIN tasks :
            CandidateRejoin(t) => heap'[sessions].candidateSocketId = tasks[t].sock
       /\ \A o \in ObjIds : heap'[o].candidateSocketId \in CandSockets \cup {NULL}]_vars

\* c1 joined and sent the text of event 2, c2 joined the same session as
\* event 3 and was bound, and event 4, the disconnect of c1, was the last step
C23_OldSocketClosedLate ==
    /\ sessions # 0
    /\ nAlloc = 1
    /\ nEvents = 4
    /\ tasks = <<>>
    /\ out = {}
    /\ ~heap[sessions].isPaused
    /\ "c1" \notin connected
    /\ "c2" \in connected
    /\ heap[sessions].candidateSocketId = "c2"
    /\ \E i \in DOMAIN heap[sessions].transcript :
          heap[sessions].transcript[i] = Turn("Candidate", 2)

\* ---------------------------------------------------- properties of the audio
\* C24: an audio chunk of the candidate is only buffered: its event starts
\* no transcription and adds no turn.
C24_ChunksOnlyBuffered ==
    [][\A c \in CandSockets :
          HandleCandidateAudio(c)
             => /\ tasks' = tasks
                /\ heap'[sessions].transcript = heap[sessions].transcript]_vars

C26_TurnsPersistedWhenAppended ==
    \A o \in 1 .. nAlloc :
       \A i \in DOMAIN heap[o].transcript :
          \E j \in DOMAIN dbTranscript : dbTranscript[j] = heap[o].transcript[i]

\* C27: in a termination the final record is persisted before any completion
\* event and before the status becomes completed, and a termination whose
\* report synthesis or final persistence fails delivers no completion event
\* and leaves the interview not completed, in the session and in the stored
\* record.
C27_FinalRecordBeforeCompletion ==
    [][/\ (\E s \in Sockets : Ev(s, "interview-completed") \in out')
            => dbStatus = "completed" /\ finalizeCount >= 1
       /\ \A o \in ObjIds :
            (heap[o].status # "completed" /\ heap'[o].status = "completed")
               => /\ dbStatus = "completed"
                  /\ dbTranscript = heap[o].transcript
       /\ \A t \in DOMAIN tasks :
            (tasks[t].pc \in {"end_report", "end_update", "end_save"} /\ HandlerFails(t))
               => /\ \A s \in Sockets : Ev(s, "interview-completed") \notin out'
                  /\ heap'[tasks[t].sess].status # "completed"
                  /\ dbStatus' # "completed"]_vars

\* ------------------------------------------ properties of the hidden observers
\* C28: while every observer is hidden, those in a session's list and those
\* a handler in flight still holds after their disconnect, the
\* observers' events (hr-join, the audio and video toggles, hr-audio,
\* hr-video, hr-note, the disconnect of an observer) send nothing to a
\* candidate's socket, and an interview-joined that is sent carries
\* hrPresent = false.
C28_HiddenObserversUnseen ==
    [][(/\ sessions # 0
        /\ \A o \in ObjIds :
              \A i \in DOMAIN heap[o].hrObservers : ~heap[o].hrObservers[i].visible
        /\ \A t \in DOMAIN tasks : \A i \in DOMAIN tasks[t].det : ~tasks[t].det[i].visible)
          => /\ (\/ \E h \in HrSockets, u \in HrUsers : HandleHRJoinExisting(h, u)
                 \/ \E h \in HrSockets, u \in HrUsers : HandleHRJoinNew(h, u)
                 \/ \E t \in DOMAIN tasks : HRJoinSaved(t)
                 \/ \E h \in HrSockets : HandleHRAudioOn(h)
                 \/ \E t \in DOMAIN tasks : HRAudioToggled(t)
                 \/ \E t \in DOMAIN tasks : HRAudioToggleFails(t)
                 \/ \E h \in HrSockets, m \in {"audio", "video"}, e \in BOOLEAN :
                       HandleHRToggleSync(h, m, e)
                 \/ \E h \in HrSockets : HandleHRAudio(h)
                 \/ \E h \in HrSockets : HandleHRVideo(h)
                 \/ \E h \in HrSockets : HandleHRNote(h)
                 \/ \E t \in DOMAIN tasks : HRNoteSaved(t)
                 \/ \E h \in HrSockets : HandleDisconnect(h))
                   => \A e \in out' : e.to \notin CandSockets
             /\ \A e \in out' : e.ev = "interview-joined" => ~e.hrPresent]_vars

\* a candidate has just joined a session that hidden observers are watching,
\* and was told that no observer is present
C28_JoinedAmongHidden ==
    /\ sessions # 0
    /\ heap[sessions].hrObservers # <<>>
    /\ \A i \in DOMAIN heap[sessions].hrObservers : ~heap[sessions].hrObservers[i].visible
    /\ \E c \in CandSockets :
          [to |-> c, ev |-> "interview-joined", hrPresent |-> FALSE] \in out

\* ------------------------------------------- properties of the completed state
\* C29: a completed session stays completed and its transcript gets no
\* further turn: candidate text or audio that arrives after the completion
\* adds nothing.
C29_CompletedIsFinal ==
    [][\A o \in ObjIds :
          heap[o].status = "completed"
             => /\ heap'[o].status = "completed"
                /\ heap'[o].transcript = heap[o].transcript]_vars

\* ------------------------------------------ properties of the observer list
\* C30: the observer list of a session holds at most one entry per hrUserId,
\* also when hr-joins of one hrUserId overlap; an hr-join of a user that is
\* in the list, from whatever socket, adds no entry: the user's entry is
\* bound to the new socket and keeps its visible, audio and video flags.
C30_OneEntryPerUser ==
    /\ [](\A o \in ObjIds :
             \A i, j \in DOMAIN heap[o].hrObservers :
                heap[o].hrObservers[i].userId = heap[o].hrObservers[j].userId => i = j)
    /\ [][\A h \in HrSockets, u \in HrUsers :
             HandleHRJoinExisting(h, u)
                => LET before == heap[sessions].hrObservers
                       after == heap'[sessions].hrObservers
                       i == FindByUser(before, u)
                   IN /\ Len(after) = Len(before)
                      /\ after[i] = [before[i] EXCEPT !.socketId = h]
                      /\ \A j \in DOMAIN before : j # i => after[j] = before[j]]_vars

\* u1 joined from h1 and switched its video on; without h1 having closed, u1
\* has just joined again from h2 and its one entry is bound to h2, video on
C30_RejoinedFromSecondSocket ==
    /\ sessions # 0
    /\ {"h1", "h2"} \subseteq connected
    /\ out = {Ev("h2", "observer-joined")}
    /\ tasks = <<>>
    /\ Len(heap[sessions].hrObservers) = 1
    /\ heap[sessions].hrObservers[1].userId = "u1"
    /\ heap[sessions].hrObservers[1].socketId = "h2"
    /\ heap[sessions].hrObservers[1].video
====
